---- MODULE Spec2Model ----
(***************************************************************************)
(* Model of the reseller tool's analysis pipeline                          *)
(* (src/src/reseller_tool/analyzer.py): title normalisation, greedy fuzzy  *)
(* matching, margin calculation, composite scoring and the ranking done by *)
(* analyze_opportunities.                                                  *)
(*                                                                         *)
(* Representation of values:                                               *)
(*   - a string is a tuple of one-character strings;                       *)
(*   - an Optional value is <<>> (None) or <<v>>;                          *)
(*   - money inputs are whole cents; inside calculate_margin amounts are   *)
(*     exact integers in units of 1/10000 cent, so that the percentage     *)
(*     fees carry no error; rounded money is in cents;                     *)
(*   - percentages, ratings, trend scores and composite scores are in      *)
(*     tenths (58.3 is 583);                                               *)
(*   - a similarity is the exact fraction <<num, den>> of                  *)
(*     Levenshtein.ratio; min_similarity is in hundredths.                 *)
(***************************************************************************)
EXTENDS Integers, Sequences, FiniteSets, TLC

VARIABLES
    ebay_products,   \* argument: the sell-side listings
    ali_products,    \* argument: the supply-side listings
    min_similarity,  \* argument, in hundredths
    keyword,         \* argument
    use_promoted,    \* argument
    include_trends,  \* argument
    pc,              \* position in analyze_opportunities / match_products
    ep_idx,          \* match_products: index of the next ebay product of the outer loop
    used_ali,        \* match_products: the set of consumed supply indices
    matches,         \* match_products: the list of (ebay index, ali index, similarity)
    trend,           \* analyze_opportunities: Optional trend score
    trend_calls,     \* number of get_trend_score calls made by this invocation
    trend_outcome,   \* how the get_trend_score call of this invocation ended
    row_idx,         \* analyze_opportunities: index of the next match of the row loop
    rows,            \* analyze_opportunities: the rows assembled so far
    result,          \* the rows of the returned DataFrame
    raised,          \* whether an exception left analyze_opportunities
    fn_pc,           \* a direct call of one function: where the call is
    fn_args,         \* a direct call of one function: its arguments
    fn_result,       \* a direct call of one function: what it returned
    threads,         \* concurrent calls of match_products: the locals of each
    secrets,         \* ebay.py: Streamlit's st.secrets, as get_api_key can read it
    environ,         \* ebay.py: the SERPAPI_API_KEY variable of os.environ
    api_key_cache,   \* ebay.py: what lru_cache holds for get_api_key()
    requests,        \* ebay.py: the number of EbaySearch requests made
    last_call        \* ebay.py: the last call of the module and how it ended

\* the variables of ebay.py
key_vars == <<secrets, environ, api_key_cache, requests, last_call>>

vars == <<ebay_products, ali_products, min_similarity, keyword, use_promoted,
          include_trends, pc, ep_idx, used_ali, matches, trend, trend_calls,
          trend_outcome, row_idx, rows, result, raised, fn_pc, fn_args, fn_result,
          threads, key_vars>>

args == <<ebay_products, ali_products, min_similarity, keyword, use_promoted,
          include_trends>>

\* the variables of analyze_opportunities
pipeline_vars == <<args, pc, ep_idx, used_ali, matches, trend, trend_calls,
                   trend_outcome, row_idx, rows, result, raised>>

\* the variables of the direct calls of calculate_margin, score_opportunity and
\* _normalize_title
fn_vars == <<fn_pc, fn_args, fn_result>>

-----------------------------------------------------------------------------
(* Bounds of the model *)

MaxEbay == 2
MaxAli == 2

-----------------------------------------------------------------------------
(* Generic helpers *)

None == << >>
Some(v) == <<v>>

Max(a, b) == IF a >= b THEN a ELSE b
Min(a, b) == IF a <= b THEN a ELSE b

\* a final-value rate other than the 0.1325 of line 25
EbayFinalValueFeeStale == 1325 - 35

\* rounding up in place of round()
RoundDivCeil(n, d) == -((-n) \div d)

\* truncation towards minus infinity in place of round()
RoundDivFloor(n, d) == n \div d

\* Python's round(): n/d (d > 0) to the nearest integer, ties to even.  The code
\* rounds binary floats, which can fall on either side of an exact half; for the
\* amounts of the catalogues and input sets below the exact and the float results
\* are the same.
RoundDiv(n, d) ==
    LET q == n \div d
        r == n % d
    IN  IF 2 * r < d THEN q
        ELSE IF 2 * r > d THEN q + 1
        ELSE IF q % 2 = 0 THEN q ELSE q + 1

SeqsUpTo(S, n) == UNION { [1..k -> S] : k \in 0..n }

-----------------------------------------------------------------------------
(* _normalize_title *)

UpperChars == <<"A","B","C","D","E","F","G","H","I","J","K","L","M",
                "N","O","P","Q","R","S","T","U","V","W","X","Y","Z">>
LowerChars == <<"a","b","c","d","e","f","g","h","i","j","k","l","m",
                "n","o","p","q","r","s","t","u","v","w","x","y","z">>
DigitChars == {"0","1","2","3","4","5","6","7","8","9"}
SpaceChars == {" ", "\t"}

LowerChar(c) ==
    IF \E k \in 1..26 : UpperChars[k] = c
    THEN LowerChars[CHOOSE k \in 1..26 : UpperChars[k] = c]
    ELSE c

\* str.lower()
StrLower(t) == [i \in 1..Len(t) |-> LowerChar(t[i])]

\* the noise list, in the order the loop visits it
Noise == <<
    <<"f","r","e","e"," ","s","h","i","p","p","i","n","g">>,
    <<"h","o","t"," ","s","a","l","e">>,
    <<"n","e","w">>,
    <<"2","0","2","4">>,
    <<"2","0","2","5">>,
    <<"2","0","2","6">>,
    <<"h","i","g","h"," ","q","u","a","l","i","t","y">>,
    <<"b","e","s","t">>,
    <<"t","o","p">>,
    <<"w","h","o","l","e","s","a","l","e">>,
    <<"l","o","t">>,
    <<"u","s"," ","s","t","o","c","k">>,
    <<"f","a","s","t"," ","s","h","i","p">>,
    <<"u","s","a"," ","s","e","l","l","e","r">>,
    <<"b","r","a","n","d"," ","n","e","w">>,
    <<"f","a","c","t","o","r","y">>,
    <<"d","i","r","e","c","t">> >>

\* t.replace(word, ""): the non-overlapping occurrences, found left to right
RECURSIVE StrRemove(_, _)
StrRemove(t, word) ==
    IF Len(t) < Len(word) THEN t
    ELSE IF SubSeq(t, 1, Len(word)) = word
         THEN StrRemove(SubSeq(t, Len(word) + 1, Len(t)), word)
         ELSE <<t[1]>> \o StrRemove(Tail(t), word)

\* for word in noise: t = t.replace(word, "")   (from the k-th word on)
RECURSIVE RemoveNoise(_, _)
RemoveNoise(t, k) ==
    IF k > Len(Noise) THEN t
    ELSE RemoveNoise(StrRemove(t, Noise[k]), k + 1)

\* re.sub(r"[^a-z0-9\s]", " ", t)
SubSpecial(t) ==
    [i \in 1..Len(t) |->
        IF (\E k \in 1..26 : LowerChars[k] = t[i]) \/ t[i] \in DigitChars
           \/ t[i] \in SpaceChars
        THEN t[i] ELSE " "]

\* re.sub(r"\s+", " ", t): every maximal run of whitespace becomes one space
RECURSIVE CollapseSpaces(_)
CollapseSpaces(t) ==
    IF t = << >> THEN << >>
    ELSE IF t[1] \in SpaceChars
         THEN IF Len(t) > 1 /\ t[2] \in SpaceChars
              THEN CollapseSpaces(Tail(t))
              ELSE <<" ">> \o CollapseSpaces(Tail(t))
         ELSE <<t[1]>> \o CollapseSpaces(Tail(t))

\* line 125 without .strip()
StrStripNot(t) == t

\* str.strip()
RECURSIVE StrStrip(_)
StrStrip(t) ==
    IF t = << >> THEN t
    ELSE IF t[1] \in SpaceChars THEN StrStrip(Tail(t))
    ELSE IF t[Len(t)] \in SpaceChars THEN StrStrip(SubSeq(t, 1, Len(t) - 1))
    ELSE t

NormalizeTitle(title) ==
    StrStrip(CollapseSpaces(SubSpecial(RemoveNoise(StrLower(title), 1))))

-----------------------------------------------------------------------------
(* Levenshtein.ratio: 2 * LCS / (len1 + len2), the normalised indel         *)
(* similarity; two empty strings have ratio 1.                             *)

RECURSIVE LCS(_, _)
LCS(a, b) ==
    IF a = << >> \/ b = << >> THEN 0
    ELSE IF a[Len(a)] = b[Len(b)]
         THEN 1 + LCS(SubSeq(a, 1, Len(a) - 1), SubSeq(b, 1, Len(b) - 1))
         ELSE Max(LCS(SubSeq(a, 1, Len(a) - 1), b), LCS(a, SubSeq(b, 1, Len(b) - 1)))

Ratio(a, b) ==
    IF Len(a) + Len(b) = 0 THEN <<1, 1>>
    ELSE <<2 * LCS(a, b), Len(a) + Len(b)>>

\* comparisons of similarities (exact fractions)
SimGT(x, y) == x[1] * y[2] > y[1] * x[2]
SimGE(x, y) == x[1] * y[2] >= y[1] * x[2]
SimEQ(x, y) == x[1] * y[2] = y[1] * x[2]
\* sim >= min_similarity, the threshold being in hundredths
SimAtLeast(x, minsim) == x[1] * 100 >= minsim * x[2]

-----------------------------------------------------------------------------
(* Fee constants, as integers: rates in 1/10000, fixed fees in cents *)

EBAY_FINAL_VALUE_FEE == 1325
EBAY_PER_ORDER_FEE == 30
PAYPAL_FEE_RATE == 290
PAYPAL_FIXED_FEE == 30
EBAY_PROMOTED_LISTING_FEE == 300

\* one cent in the unit of the exact amounts (1/10000 cent)
Cent == 10000

(* calculate_margin: sell_price, source_cost, shipping_income in cents.     *)
(* A percentage in tenths is net * 1000 / (x * Cent), here with the factor  *)
(* 1000 cancelled (TLC's integers are 32 bits wide).                        *)
(* The fields named *_exact are the values before rounding, in 1/10000     *)
(* cent; they are not returned by the code and serve the statements about  *)
(* the unrounded amounts.                                                  *)
\* line 81 leaving the shipping income out of the revenue
GrossRevenueSellOnly(sell_price, shipping_income) == sell_price

\* line 81
GrossRevenue(sell_price, shipping_income) == sell_price + shipping_income

\* line 94 with >= for >
MarginGuardNonNegative(gross_revenue) == gross_revenue >= 0

\* the test of line 94
MarginGuard(gross_revenue) == gross_revenue > 0

\* the test of line 95
RoiGuard(source_cost) == source_cost > 0

\* lines 94-95: a division that is reached with a zero divisor raises
\* ZeroDivisionError
MarginRaises(sell_price, source_cost, shipping_income) ==
    LET gross_revenue == GrossRevenue(sell_price, shipping_income)
    IN  \/ MarginGuard(gross_revenue) /\ gross_revenue = 0
        \/ RoiGuard(source_cost) /\ source_cost = 0

\* The returned dict of lines 97-105; the fields gross_revenue and *_exact
\* are the locals of lines 81-92 before round(), in 1/10000 cent (gross_revenue
\* in cents).
CalculateMargin(sell_price, source_cost, shipping_income, promoted) ==
    LET gross_revenue == GrossRevenue(sell_price, shipping_income)
        ebay_fee == gross_revenue * EBAY_FINAL_VALUE_FEE + EBAY_PER_ORDER_FEE * Cent
        payment_fee == gross_revenue * PAYPAL_FEE_RATE + PAYPAL_FIXED_FEE * Cent
        promoted_fee == IF promoted THEN gross_revenue * EBAY_PROMOTED_LISTING_FEE ELSE 0
        total_cost == source_cost * Cent + ebay_fee + payment_fee + promoted_fee
        net_profit == gross_revenue * Cent - total_cost
    IN  [ ebay_fee     |-> RoundDiv(ebay_fee, Cent),
          payment_fee  |-> RoundDiv(payment_fee, Cent),
          promoted_fee |-> RoundDiv(promoted_fee, Cent),
          total_cost   |-> RoundDiv(total_cost, Cent),
          net_profit   |-> RoundDiv(net_profit, Cent),
          margin_pct   |-> IF MarginGuard(gross_revenue)
                           THEN RoundDiv(net_profit, gross_revenue * (Cent \div 1000))
                           ELSE 0,
          roi_pct      |-> IF RoiGuard(source_cost)
                           THEN RoundDiv(net_profit, source_cost * (Cent \div 1000))
                           ELSE 0,
          gross_revenue      |-> gross_revenue,
          ebay_fee_exact     |-> ebay_fee,
          payment_fee_exact  |-> payment_fee,
          promoted_fee_exact |-> promoted_fee,
          total_cost_exact   |-> total_cost,
          net_profit_exact   |-> net_profit ]

-----------------------------------------------------------------------------
(* score_opportunity: margin_pct, roi_pct in tenths of a percent, ali_rating *)
(* and trend_score Optional tenths, match_confidence a fraction; the result  *)
(* is in tenths.  The sub-scores of lines 254-259 are kept exact in 1/30 of  *)
(* a point (FullNorm is 100 points), match_norm as a fraction over the       *)
(* denominator of match_confidence.                                          *)

OrZero(opt) == IF opt = None THEN 0 ELSE opt[1]

FullNorm == 100 * 30

\* line 254 without min(..., 1.0)
MarginNormUncapped(margin_pct) == Max(margin_pct, 0) * 5

\* line 254
MarginNorm(margin_pct) == Min(Max(margin_pct, 0), 600) * 5

\* line 255
RoiNorm(roi_pct) == Min(Max(roi_pct, 0), 3000)

\* line 256
OrdersNorm(ali_orders) == Min(ali_orders, 500) * 6

\* line 257
RatingNorm(ali_rating) == OrZero(ali_rating) * 60

\* line 258 written as line 257 is: (trend_score or 0)
TrendNormOrZero(trend_score) == OrZero(trend_score) * 3

\* line 258
TrendNorm(trend_score) == (IF trend_score /= None THEN trend_score[1] ELSE 500) * 3

\* line 259; the numerator over match_confidence[2]
MatchNorm(match_confidence) == match_confidence[1] * FullNorm

\* line 270 without min()
ClampNot(score, full) == score

\* min(score, 100) of line 270
Clamp(score, full) == Min(score, full)

ScoreOpportunity(margin_pct, roi_pct, ali_orders, ali_rating, trend_score, match_confidence) ==
    LET den == match_confidence[2]
        \* lines 261-268 in 1/(3000 * den) of a point
        score == ( MarginNorm(margin_pct) * 25
                   + RoiNorm(roi_pct) * 15
                   + OrdersNorm(ali_orders) * 20
                   + RatingNorm(ali_rating) * 10
                   + TrendNorm(trend_score) * 20 ) * den
                 + MatchNorm(match_confidence) * 10
    IN  RoundDiv(Clamp(score, 100 * FullNorm * den), 10 * 30 * den)

-----------------------------------------------------------------------------
(* The listings the inputs are drawn from *)

EbayProduct(title, price, shipping) ==
    [title |-> title, price |-> price, shipping |-> shipping]

AliExpressProduct(title, total_source_cost, orders, rating) ==
    [title |-> title, total_source_cost |-> total_source_cost,
     orders |-> orders, rating |-> rating]

EbayCatalog == {
    EbayProduct(<<"C","a","t"," ","T","o","y">>, 10000, 0),
    EbayProduct(<<"N","E","W"," ","c","a","t"," ","t","o","y","!">>, 20000, 499),
    EbayProduct(<<"c","a","t">>, 381, 0),
    EbayProduct(<<"d","o","g">>, 999, 0) }

AliCatalog == {
    AliExpressProduct(<<"c","a","t"," ","t","o","y">>, 550, 0, None),
    AliExpressProduct(<<"D","o","g"," ","C","a","t">>, 259, 600, Some(48)),
    AliExpressProduct(<<"C","a","t","-","T","o","y"," ","2","0","2","5">>, 1500, 0, None),
    AliExpressProduct(<<"d","o","g">>, 1500, 40, Some(35)) }

MinSimilarities == {0, 40, 70}
Keywords == { << >>, <<"c","a","t">> }
\* what Google Trends can answer, in tenths
TrendScores == {0, 500, 1000}

-----------------------------------------------------------------------------
(* match_products *)

\* Levenshtein.ratio(_normalize_title(t1), _normalize_title(t2)) (lines 149, 156, 157)
TitleSimilarity(t1, t2) == Ratio(NormalizeTitle(t1), NormalizeTitle(t2))

\* the same, tabulated once for the titles of the catalogues (@@ makes TLC
\* evaluate the table once, when it is defined, not at every use)
SimilarityTable ==
    [t \in {p.title : p \in EbayCatalog} \X {p.title : p \in AliCatalog} |->
        TitleSimilarity(t[1], t[2])] @@ << >>

\* the similarity of the e-th source and the a-th supply listing
Similarity(e, a) ==
    SimilarityTable[<<ebay_products[e].title, ali_products[a].title>>]

\* line 159 without its threshold test
ImprovesAnySimilarity(sim, best) ==
    best = None \/ SimGT(sim, best[1][2])

\* line 159 keeping the first candidate found instead of the best one
ImprovesFirstFound(sim, best) ==
    SimAtLeast(sim, min_similarity) /\ best = None

\* line 159 with > for >= in the threshold test
ImprovesStrictlyAbove(sim, best) ==
    sim[1] * 100 > min_similarity * sim[2]
    /\ (best = None \/ SimGT(sim, best[1][2]))

\* line 159 with >= for > in the comparison with the best so far
ImprovesOnTie(sim, best) ==
    SimAtLeast(sim, min_similarity) /\ (best = None \/ SimGE(sim, best[1][2]))

\* the test of line 159
Improves(sim, best) ==
    SimAtLeast(sim, min_similarity) /\ (best = None \/ SimGT(sim, best[1][2]))

\* line 154 never skipping
SkippedNever(i, used) == FALSE

\* whether the inner loop skips supply index i (line 154)
Skipped(i, used) == i \in used

(* The inner loop (lines 153-161) from supply index i on: best is None or   *)
(* <<(index, similarity)>>.                                                *)
RECURSIVE ScanAli(_, _, _, _)
ScanAli(e, i, used, best) ==
    IF i > Len(ali_products) THEN best
    ELSE IF Skipped(i, used) THEN ScanAli(e, i + 1, used, best)
    ELSE LET sim == Similarity(e, i)
         IN  IF Improves(sim, best)
             THEN ScanAli(e, i + 1, used, Some(<<i, sim>>))
             ELSE ScanAli(e, i + 1, used, best)

\* line 153 enumerating from the second supply listing
BestMatchFromSecond(e, used) == ScanAli(e, 2, used, None)

BestMatch(e, used) == ScanAli(e, 1, used, None)

\* line 165 left out
ConsumeNothing(used, i) == used

\* used_ali after a match with supply index i (line 165)
Consume(used, i) == used \cup {i}

Match(e, a, sim) == [e |-> e, a |-> a, sim |-> sim]

\* list.sort(key=lambda x: x[2], reverse=True): stable, descending
RECURSIVE InsertBySim(_, _)
InsertBySim(sorted, m) ==
    IF sorted = << >> THEN <<m>>
    ELSE IF SimGE(sorted[1].sim, m.sim)
         THEN <<sorted[1]>> \o InsertBySim(Tail(sorted), m)
         ELSE <<m>> \o sorted

RECURSIVE SortFrom(_, _, _)
SortFrom(ms, k, sorted) ==
    IF k > Len(ms) THEN sorted
    ELSE SortFrom(ms, k + 1, InsertBySim(sorted, ms[k]))

\* line 167 left out
SortMatchesNot(ms) == ms

SortMatches(ms) == SortFrom(ms, 1, << >>)

\* one iteration of the outer loop (lines 148-165)
MatchStep ==
    /\ pc = "match"
    /\ ep_idx <= Len(ebay_products)
    /\ LET best == BestMatch(ep_idx, used_ali)
       IN  IF best /= None
           THEN /\ matches' = Append(matches, Match(ep_idx, best[1][1], best[1][2]))
                /\ used_ali' = Consume(used_ali, best[1][1])
           ELSE UNCHANGED <<matches, used_ali>>
    /\ ep_idx' = ep_idx + 1
    /\ UNCHANGED <<fn_vars, threads, key_vars, args, pc, trend, trend_calls, trend_outcome,
                   row_idx, rows, result, raised>>

\* the end of the loop: sort and return (lines 167-168)
MatchReturn ==
    /\ pc = "match"
    /\ ep_idx > Len(ebay_products)
    /\ matches' = SortMatches(matches)
    /\ pc' = "matched"
    /\ UNCHANGED <<fn_vars, threads, key_vars, args, ep_idx, used_ali, trend, trend_calls,
                   trend_outcome, row_idx, rows, result, raised>>

-----------------------------------------------------------------------------
(* analyze_opportunities *)

\* `if not matches: return pd.DataFrame()` (lines 300-301)
NoMatchReturn ==
    /\ pc = "matched"
    /\ matches = << >>
    /\ result' = << >>
    /\ pc' = "done"
    /\ UNCHANGED <<fn_vars, threads, key_vars, args, ep_idx, used_ali, matches, trend,
                   trend_calls, trend_outcome, row_idx, rows, raised>>

\* line 305 without its test
WantsTrendAlways == TRUE

\* whether get_trend_score is called (line 305)
WantsTrend == include_trends /\ keyword /= << >>

(* get_trend_score, lines 175-200.  What pytrends does is one of: an        *)
(* exception anywhere in lines 189-197, an empty frame, or a frame whose    *)
(* mean interest is a score.                                                *)
TrendOutcomes ==
    {<<"exception", 0>>, <<"empty", 0>>} \cup {<<"mean", s>> : s \in TrendScores}

\* lines 194-195 taking the mean of the empty frame for 0
GetTrendScoreEmptyZero(o) == IF o[1] = "exception" THEN None ELSE Some(o[2])

\* lines 188-200
GetTrendScore(o) == IF o[1] = "mean" THEN Some(o[2]) ELSE None

(* Lines 304-306 *)
TrendFetch ==
    /\ pc = "matched"
    /\ matches /= << >>
    /\ IF WantsTrend
       THEN /\ \E o \in TrendOutcomes :
                   /\ trend' = GetTrendScore(o)
                   /\ trend_outcome' = o[1]
            /\ trend_calls' = trend_calls + 1
       ELSE /\ trend' = None
            /\ UNCHANGED <<trend_calls, trend_outcome>>
    /\ row_idx' = 1
    /\ pc' = "rows"
    /\ UNCHANGED <<fn_vars, threads, key_vars, args, ep_idx, used_ali, matches, rows,
                   result, raised>>

\* calculate_margin for a match (lines 310-315)
MarginOf(m) ==
    CalculateMargin(ebay_products[m.e].price,
                    ali_products[m.a].total_source_cost,
                    ebay_products[m.e].shipping,
                    use_promoted)

\* line 318 with < for <=
UnprofitableStrict(margin) == margin.net_profit < 0

\* line 318 testing the profit before it is rounded
UnprofitableExact(margin) == margin.net_profit_exact <= 0

\* the test of line 318
Unprofitable(margin) == margin.net_profit <= 0

\* the row of lines 321-350; e and a stand for the listing the urls identify
RowOf(m, margin, tr) ==
    [ e |-> m.e, a |-> m.a,
      ebay_price |-> ebay_products[m.e].price,
      ali_cost |-> ali_products[m.a].total_source_cost,
      ebay_fee |-> margin.ebay_fee,
      payment_fee |-> margin.payment_fee,
      promoted_fee |-> margin.promoted_fee,
      net_profit |-> margin.net_profit,
      margin_pct |-> margin.margin_pct,
      roi_pct |-> margin.roi_pct,
      ali_orders |-> ali_products[m.a].orders,
      ali_rating |-> ali_products[m.a].rating,
      trend_score |-> tr,
      match_confidence |-> RoundDiv(m.sim[1] * 100, m.sim[2]),
      composite_score |->
          ScoreOpportunity(margin.margin_pct, margin.roi_pct,
                           ali_products[m.a].orders, ali_products[m.a].rating,
                           tr, m.sim) ]

\* one iteration of the row loop (lines 309-350)
RowStep ==
    /\ pc = "rows"
    /\ row_idx <= Len(matches)
    /\ LET m == matches[row_idx]
           margin == MarginOf(m)
       IN  IF Unprofitable(margin)
           THEN UNCHANGED rows
           ELSE rows' = Append(rows, RowOf(m, margin, trend))
    /\ row_idx' = row_idx + 1
    /\ UNCHANGED <<fn_vars, threads, key_vars, args, pc, ep_idx, used_ali, matches,
                   trend, trend_calls, trend_outcome, result, raised>>

\* df.empty
DfEmpty(df) == Len(df) = 0

\* line 353 left out
NeedsSortAlways(df) == TRUE

\* the guard of line 353
NeedsSort(df) == ~DfEmpty(df)

IndexPermutations(n) == { p \in [1..n -> 1..n] : \A i, j \in 1..n : i /= j => p[i] /= p[j] }

\* line 354 left out
SortValuesNot(df) == {df}

\* line 354 with ascending=True
SortValuesAscending(df) ==
    { [i \in 1..Len(df) |-> df[p[i]]] : p \in
        { q \in IndexPermutations(Len(df)) :
            \A i \in 1..(Len(df) - 1) :
                df[q[i]].composite_score <= df[q[i + 1]].composite_score } }

(* df.sort_values("composite_score", ascending=False).reset_index(drop=True) *)
(* The default sort kind (quicksort) is not stable: every arrangement of    *)
(* the rows in non-increasing composite_score is a possible answer.         *)
SortValues(df) ==
    { [i \in 1..Len(df) |-> df[p[i]]] : p \in
        { q \in IndexPermutations(Len(df)) :
            \A i \in 1..(Len(df) - 1) :
                df[q[i]].composite_score >= df[q[i + 1]].composite_score } }

(* Lines 352-355.  pd.DataFrame([]) has no columns: sort_values on it       *)
(* raises KeyError, which leaves analyze_opportunities.                     *)
Finish ==
    /\ pc = "rows"
    /\ row_idx > Len(matches)
    /\ IF NeedsSort(rows)
       THEN IF DfEmpty(rows)
            THEN /\ raised' = TRUE
                 /\ pc' = "raised"
                 /\ UNCHANGED result
            ELSE /\ \E df \in SortValues(rows) : result' = df
                 /\ pc' = "done"
                 /\ UNCHANGED raised
       ELSE /\ result' = rows
            /\ pc' = "done"
            /\ UNCHANGED raised
    /\ UNCHANGED <<fn_vars, threads, key_vars, args, ep_idx, used_ali, matches, trend,
                   trend_calls, trend_outcome, row_idx, rows>>

-----------------------------------------------------------------------------
(* One invocation of analyze_opportunities on any inputs of the bounds *)

\* ebay.py is not called: no key anywhere, nothing cached, nothing requested
NoKeyUse ==
    /\ secrets = [available |-> FALSE, key |-> None]
    /\ environ = None
    /\ api_key_cache = None
    /\ requests = 0
    /\ last_call = [fn |-> "none", outcome |-> "none", key |-> ""]

Init ==
    /\ ebay_products \in SeqsUpTo(EbayCatalog, MaxEbay)
    /\ ali_products \in SeqsUpTo(AliCatalog, MaxAli)
    /\ min_similarity \in MinSimilarities
    /\ keyword \in Keywords
    /\ use_promoted \in BOOLEAN
    /\ include_trends \in BOOLEAN
    /\ pc = "match"
    /\ ep_idx = 1
    /\ used_ali = {}
    /\ matches = << >>
    /\ trend = None
    /\ trend_calls = 0
    /\ trend_outcome = "not called"
    /\ row_idx = 1
    /\ rows = << >>
    /\ result = << >>
    /\ raised = FALSE
    /\ fn_pc = "idle"
    /\ fn_args = << >>
    /\ fn_result = << >>
    /\ threads = << >>
    /\ NoKeyUse

Next ==
    \/ MatchStep
    \/ MatchReturn
    \/ NoMatchReturn
    \/ TrendFetch
    \/ RowStep
    \/ Finish

Spec == Init /\ [][Next]_vars

-----------------------------------------------------------------------------
(* Direct calls of the pure functions of analyzer.py.  No invocation of     *)
(* analyze_opportunities is under way: its variables rest in NoInvocation.   *)

NoInvocation ==
    /\ ebay_products = << >>
    /\ ali_products = << >>
    /\ min_similarity = 0
    /\ keyword = << >>
    /\ use_promoted = FALSE
    /\ include_trends = FALSE
    /\ pc = "idle"
    /\ ep_idx = 1
    /\ used_ali = {}
    /\ matches = << >>
    /\ trend = None
    /\ trend_calls = 0
    /\ trend_outcome = "not called"
    /\ row_idx = 1
    /\ rows = << >>
    /\ result = << >>
    /\ raised = FALSE

(* calculate_margin(sell_price, source_cost, shipping_income, use_promoted), *)
(* lines 63-105.  Amounts in cents.  The caller also holds a fee schedule    *)
(* (caller_fees, rates in 1/10000, amounts in cents) it wants applied; the   *)
(* signature of lines 63-68 has no parameter for it, so it is not among the  *)
(* values passed in MarginCall.                                              *)

SellPrices == {-400, 0, 381, 999, 2499, 10000}
SourceCosts == {-100, 0, 259, 550, 1500}
ShippingIncomes == {0, 499}

ModuleFees ==
    [ platformFeeRate |-> EBAY_FINAL_VALUE_FEE, perOrderFee |-> EBAY_PER_ORDER_FEE,
      paymentFeeRate |-> PAYPAL_FEE_RATE, paymentFixedFee |-> PAYPAL_FIXED_FEE,
      promotedFeeRate |-> EBAY_PROMOTED_LISTING_FEE ]

OtherFees ==
    [ platformFeeRate |-> 1500, perOrderFee |-> 25,
      paymentFeeRate |-> 350, paymentFixedFee |-> 49,
      promotedFeeRate |-> 200 ]

FeeSchedules == {ModuleFees, OtherFees}

MarginArgs ==
    [ sell_price : SellPrices, source_cost : SourceCosts,
      shipping_income : ShippingIncomes, use_promoted : BOOLEAN,
      caller_fees : FeeSchedules ]

InitMargin ==
    /\ NoInvocation
    /\ fn_pc = "calculate_margin"
    /\ fn_args \in MarginArgs
    /\ fn_result = << >>
    /\ threads = << >>
    /\ NoKeyUse

MarginCall ==
    /\ fn_pc = "calculate_margin"
    /\ IF MarginRaises(fn_args.sell_price, fn_args.source_cost, fn_args.shipping_income)
       THEN /\ fn_pc' = "raised"
            /\ fn_result' = << >>
       ELSE /\ fn_pc' = "returned"
            /\ fn_result' = CalculateMargin(fn_args.sell_price, fn_args.source_cost,
                                            fn_args.shipping_income,
                                            fn_args.use_promoted)
    /\ UNCHANGED <<pipeline_vars, threads, key_vars, fn_args>>

NextMargin == MarginCall

SpecMargin == InitMargin /\ [][NextMargin]_vars

(* score_opportunity(margin_pct, roi_pct, ali_orders, ali_rating,           *)
(* trend_score, match_confidence), lines 235-270, on values inside and       *)
(* outside the ranges the pipeline produces.                                 *)

MarginPcts == {-723, 0, 300, 583, 600, 5000}
RoiPcts == {-482, 0, 2647, 3000, 100000}
AliOrders == {0, 120, 500, 100000}
AliRatings == {None, Some(0), Some(48), Some(50), Some(100)}
TrendInputs == {None, Some(0), Some(500), Some(1000), Some(2000)}
MatchConfidences == {<<0, 1>>, <<3, 5>>, <<1, 1>>, <<3, 2>>}

ScoreArgs ==
    [ margin_pct : MarginPcts, roi_pct : RoiPcts, ali_orders : AliOrders,
      ali_rating : AliRatings, trend_score : TrendInputs,
      match_confidence : MatchConfidences ]

InitScore ==
    /\ NoInvocation
    /\ fn_pc = "score_opportunity"
    /\ fn_args \in ScoreArgs
    /\ fn_result = << >>
    /\ threads = << >>
    /\ NoKeyUse

ScoreCall ==
    /\ fn_pc = "score_opportunity"
    /\ fn_pc' = "returned"
    /\ fn_result' = ScoreOpportunity(fn_args.margin_pct, fn_args.roi_pct,
                                     fn_args.ali_orders, fn_args.ali_rating,
                                     fn_args.trend_score, fn_args.match_confidence)
    /\ UNCHANGED <<pipeline_vars, threads, key_vars, fn_args>>

NextScore == ScoreCall

SpecScore == InitScore /\ [][NextScore]_vars

(* _normalize_title(title), lines 112-126, on the titles that can be put    *)
(* together from at most MaxParts of the pieces below: noise phrases whole   *)
(* and in halves, upper case, digits, punctuation and white space.           *)

MaxParts == 4

TitleParts ==
    { <<"h","o","t">>, <<"s","a","l","e">>, <<"n">>, <<"e","w">>,
      <<"N","E","W">>, <<"C","A","T">>, <<"2","0","2","5">>,
      <<" ">>, <<"\t">>, <<"-">> }

RECURSIVE Concat(_)
Concat(parts) ==
    IF parts = << >> THEN << >> ELSE Head(parts) \o Concat(Tail(parts))

Titles == { Concat(parts) : parts \in SeqsUpTo(TitleParts, MaxParts) }

InitNormalize ==
    /\ NoInvocation
    /\ fn_pc = "_normalize_title"
    /\ fn_args \in Titles
    /\ fn_result = << >>
    /\ threads = << >>
    /\ NoKeyUse

NormalizeCall ==
    /\ fn_pc = "_normalize_title"
    /\ fn_pc' = "returned"
    /\ fn_result' = NormalizeTitle(fn_args)
    /\ UNCHANGED <<pipeline_vars, threads, key_vars, fn_args>>

\* the function applied to its own result
NormalizeAgain ==
    /\ fn_pc = "returned"
    /\ fn_pc' = "returned again"
    /\ fn_args' = fn_result
    /\ fn_result' = NormalizeTitle(fn_result)
    /\ UNCHANGED <<pipeline_vars, threads, key_vars>>

NextNormalize ==
    \/ NormalizeCall
    \/ NormalizeAgain

SpecNormalize == InitNormalize /\ [][NextNormalize]_vars

(* Two calls of match_products running at the same time, as two worker      *)
(* threads would make them, on the same supply list and threshold.  Thread 1 *)
(* is given ebay_products, thread 2 the same listings in reverse order.      *)
(* Every local of lines 145-151 is kept per thread; a step is one iteration  *)
(* of the inner loop, the end of an inner loop, or the final sort.           *)

Threads == {1, 2}

\* the index in ebay_products of the listing thread t visits at loop position pos
SourceIndex(t, pos) == IF t = 1 THEN pos ELSE Len(ebay_products) + 1 - pos

\* used_ali as one set shared by the calls
UsedAliShared(t) == UNION { threads[u].used_ali : u \in Threads }

\* used_ali of line 146: a set created inside the call
UsedAliOf(t) == threads[t].used_ali

InitConcurrent ==
    /\ ebay_products \in SeqsUpTo(EbayCatalog, MaxEbay)
    /\ ali_products \in SeqsUpTo(AliCatalog, MaxAli)
    /\ min_similarity \in MinSimilarities
    /\ keyword = << >>
    /\ use_promoted = FALSE
    /\ include_trends = FALSE
    /\ pc = "idle"
    /\ ep_idx = 1
    /\ used_ali = {}
    /\ matches = << >>
    /\ trend = None
    /\ trend_calls = 0
    /\ trend_outcome = "not called"
    /\ row_idx = 1
    /\ rows = << >>
    /\ result = << >>
    /\ raised = FALSE
    /\ fn_pc = "idle"
    /\ fn_args = << >>
    /\ fn_result = << >>
    /\ threads = [t \in Threads |->
                    [pc |-> "outer", pos |-> 1, i |-> 1, best |-> None,
                     used_ali |-> {}, matches |-> << >>]]
    /\ NoKeyUse

\* lines 148-151: the next source listing, or the end of the outer loop
ThreadOuter(t) ==
    /\ threads[t].pc = "outer"
    /\ IF threads[t].pos > Len(ebay_products)
       THEN threads' = [threads EXCEPT ![t].pc = "sort"]
       ELSE threads' = [threads EXCEPT ![t].pc = "inner", ![t].i = 1, ![t].best = None]
    /\ UNCHANGED <<pipeline_vars, fn_vars, key_vars>>

\* lines 153-161: one iteration of the inner loop
ThreadInner(t) ==
    /\ threads[t].pc = "inner"
    /\ threads[t].i <= Len(ali_products)
    /\ LET i == threads[t].i
           sim == Similarity(SourceIndex(t, threads[t].pos), i)
       IN  IF ~Skipped(i, UsedAliOf(t)) /\ Improves(sim, threads[t].best)
           THEN threads' = [threads EXCEPT ![t].best = Some(<<i, sim>>), ![t].i = i + 1]
           ELSE threads' = [threads EXCEPT ![t].i = i + 1]
    /\ UNCHANGED <<pipeline_vars, fn_vars, key_vars>>

\* lines 163-165: the end of the inner loop
ThreadPair(t) ==
    /\ threads[t].pc = "inner"
    /\ threads[t].i > Len(ali_products)
    /\ LET best == threads[t].best
           e == SourceIndex(t, threads[t].pos)
       IN  IF best /= None
           THEN threads' = [threads EXCEPT
                    ![t].matches = Append(@, Match(e, best[1][1], best[1][2])),
                    ![t].used_ali = Consume(@, best[1][1]),
                    ![t].pos = @ + 1,
                    ![t].pc = "outer"]
           ELSE threads' = [threads EXCEPT ![t].pos = @ + 1, ![t].pc = "outer"]
    /\ UNCHANGED <<pipeline_vars, fn_vars, key_vars>>

\* lines 167-168
ThreadReturn(t) ==
    /\ threads[t].pc = "sort"
    /\ threads' = [threads EXCEPT ![t].matches = SortMatches(@), ![t].pc = "returned"]
    /\ UNCHANGED <<pipeline_vars, fn_vars, key_vars>>

NextConcurrent ==
    \E t \in Threads :
        \/ ThreadOuter(t)
        \/ ThreadInner(t)
        \/ ThreadPair(t)
        \/ ThreadReturn(t)

SpecConcurrent == InitConcurrent /\ [][NextConcurrent]_vars

(* analyze_opportunities called a second time with the same arguments after *)
(* it has returned.  fn_result keeps what the first call returned.  Every    *)
(* local of the function and of match_products is created anew by the call   *)
(* (lines 145-146, 304, 308).                                                *)

\* used_ali surviving from the call before
UsedAliKept(previous) == previous

\* line 146: used_ali of a new call
UsedAliFresh(previous) == {}

CallAgain ==
    /\ pc = "done"
    /\ fn_pc = "idle"
    /\ fn_pc' = "called again"
    /\ fn_result' = [matches |-> matches, trend |-> trend, rows |-> rows,
                     result |-> result]
    /\ pc' = "match"
    /\ ep_idx' = 1
    /\ used_ali' = UsedAliFresh(used_ali)
    /\ matches' = << >>
    /\ trend' = None
    /\ trend_calls' = 0
    /\ trend_outcome' = "not called"
    /\ row_idx' = 1
    /\ rows' = << >>
    /\ result' = << >>
    /\ UNCHANGED <<args, raised, fn_args, threads, key_vars>>

NextTwice == Next \/ CallAgain

SpecTwice == Init /\ [][NextTwice]_vars

(* The AliExpress searches of aliexpress.py.  fn_args holds the arguments    *)
(* and what the remote side answers: `page` is how the answer is shaped and  *)
(* `items` the listings in it, each with the order count and rating it       *)
(* shows and whether its source is AliExpress.                               *)

MaxItems == 2

RawItem(orders, rating, from_aliexpress) ==
    [orders |-> orders, rating |-> rating, from_aliexpress |-> from_aliexpress]

RawItems ==
    { RawItem(o, r, f) : o \in {0, 40, 600}, r \in {None, Some(48)}, f \in BOOLEAN }

MinOrders == {0, 5, 100}
MinRatings == {0, 49}
Limits == {1, 2}

\* the first n elements of a list
Take(list, n) == SubSeq(list, 1, Min(n, Len(list)))

(* The loops of _parse_html_results (lines 173-251) and                     *)
(* _parse_json_from_scripts (lines 287-352) over the listings from the k-th *)
(* on: the post-filters, then the limit.                                     *)
RECURSIVE ParseFiltered(_, _, _, _, _, _)
ParseFiltered(items, k, limit, min_orders, min_rating, products) ==
    IF k > Len(items) THEN products
    ELSE LET item == items[k]
             product == [orders |-> item.orders, rating |-> item.rating]
         IN  IF item.orders < min_orders
                \/ (item.rating /= None /\ item.rating[1] < min_rating)
             THEN ParseFiltered(items, k + 1, limit, min_orders, min_rating, products)
             ELSE IF Len(products) + 1 >= limit
                  THEN Append(products, product)
                  ELSE ParseFiltered(items, k + 1, limit, min_orders, min_rating,
                                     Append(products, product))

\* search_aliexpress_html, lines 96-150: page is "error" (httpx.HTTPError,
\* lines 146-148), "cards" (lines 173-253) or "json" (the fallback of lines
\* 169-171); both loops read the first limit * 2 listings
SearchAliexpressHtml(page, items, limit, min_orders, min_rating) ==
    IF page = "error" THEN << >>
    ELSE ParseFiltered(Take(items, limit * 2), 1, limit, min_orders, min_rating, << >>)

(* The loop of search_aliexpress (lines 405-435) from the k-th result on:   *)
(* results of other sources are skipped, orders is set to 0, min_orders and  *)
(* min_rating are not read.                                                  *)
RECURSIVE ShoppingProducts(_, _, _, _)
ShoppingProducts(items, k, limit, products) ==
    IF k > Len(items) THEN products
    ELSE IF ~items[k].from_aliexpress
         THEN ShoppingProducts(items, k + 1, limit, products)
         ELSE LET product == [orders |-> 0, rating |-> items[k].rating]
              IN  IF Len(products) + 1 >= limit
                  THEN Append(products, product)
                  ELSE ShoppingProducts(items, k + 1, limit, Append(products, product))

\* search_aliexpress, lines 357-437: page is "error" (no API key, or SerpApi
\* raised) or "results"
SearchAliexpress(page, items, limit, min_orders, min_rating) ==
    IF page = "error" THEN << >>
    ELSE ShoppingProducts(items, 1, limit, << >>)

SearchArgs ==
    [ page : {"error", "cards", "json", "results"},
      items : SeqsUpTo(RawItems, MaxItems),
      limit : Limits, min_orders : MinOrders, min_rating : MinRatings ]

InitSearch ==
    /\ NoInvocation
    /\ fn_pc \in {"search_aliexpress_html", "search_aliexpress"}
    /\ fn_args \in SearchArgs
    /\ fn_pc = "search_aliexpress_html" => fn_args.page \in {"error", "cards", "json"}
    /\ fn_pc = "search_aliexpress" => fn_args.page \in {"error", "results"}
    /\ fn_result = << >>
    /\ threads = << >>
    /\ NoKeyUse

SearchHtmlCall ==
    /\ fn_pc = "search_aliexpress_html"
    /\ fn_pc' = "returned from search_aliexpress_html"
    /\ fn_result' = SearchAliexpressHtml(fn_args.page, fn_args.items, fn_args.limit,
                                         fn_args.min_orders, fn_args.min_rating)
    /\ UNCHANGED <<pipeline_vars, threads, key_vars, fn_args>>

SearchCall ==
    /\ fn_pc = "search_aliexpress"
    /\ fn_pc' = "returned from search_aliexpress"
    /\ fn_result' = SearchAliexpress(fn_args.page, fn_args.items, fn_args.limit,
                                     fn_args.min_orders, fn_args.min_rating)
    /\ UNCHANGED <<pipeline_vars, threads, key_vars, fn_args>>

NextSearch ==
    \/ SearchHtmlCall
    \/ SearchCall

SpecSearch == InitSearch /\ [][NextSearch]_vars

(* Either use of the fee constants of lines 25-29: an invocation of          *)
(* analyze_opportunities, or a direct call of calculate_margin.              *)

InitFees == Init \/ InitMargin

NextFees == Next \/ NextMargin

SpecFees == InitFees /\ [][NextFees]_vars

-----------------------------------------------------------------------------
(* The API key of ebay.py (SpecKey).  One process: its environment and its   *)
(* Streamlit secrets change between calls of get_api_key, search_ebay and    *)
(* search_ebay_sold, each of which runs to its end before the next step.     *)

MaxRequests == 2

\* the values a key can have; "" is the value that counts as no key
Keys == {"", "key-a", "key-b"}

\* st.secrets: not available (no streamlit, no secrets file: the try block
\* raises), or available with or without an entry for SERPAPI_API_KEY
Secrets ==
    {[available |-> FALSE, key |-> None]}
    \cup {[available |-> TRUE, key |-> k] : k \in {None} \cup {Some(k) : k \in Keys}}

\* os.environ: SERPAPI_API_KEY unset or set
Environs == {None} \cup {Some(k) : k \in Keys}

\* the body of get_api_key (lines 25-33)
LoadApiKey ==
    IF secrets.available /\ secrets.key /= None THEN secrets.key[1]
    ELSE IF environ /= None THEN environ[1]
    ELSE ""

\* get_api_key without @lru_cache
CacheHitNever(cache) == FALSE

\* lru_cache(maxsize=1) of a function without arguments: a hit once a call
\* has returned
CacheHit(cache) == cache /= None

\* what a call of get_api_key() returns
GetApiKey == IF CacheHit(api_key_cache) THEN api_key_cache[1] ELSE LoadApiKey

Call(fn, outcome, key) == [fn |-> fn, outcome |-> outcome, key |-> key]

InitKey ==
    /\ NoInvocation
    /\ fn_pc = "idle"
    /\ fn_args = << >>
    /\ fn_result = << >>
    /\ threads = << >>
    /\ secrets \in Secrets
    /\ environ \in Environs
    /\ api_key_cache = None
    /\ requests = 0
    /\ last_call = Call("none", "none", "")

\* the environment variable is set, changed or removed
SetEnviron ==
    /\ \E e \in Environs \ {environ} : environ' = e
    /\ UNCHANGED <<pipeline_vars, fn_vars, threads, secrets, api_key_cache,
                   requests, last_call>>

\* the secrets are set, changed or removed
SetSecrets ==
    /\ \E s \in Secrets \ {secrets} : secrets' = s
    /\ UNCHANGED <<pipeline_vars, fn_vars, threads, environ, api_key_cache,
                   requests, last_call>>

\* a call of get_api_key()
GetApiKeyCall ==
    /\ api_key_cache' = Some(GetApiKey)
    /\ last_call' = Call("get_api_key", "returned", GetApiKey)
    /\ UNCHANGED <<pipeline_vars, fn_vars, threads, secrets, environ, requests>>

\* search_ebay (lines 78-81, 97, 110-111) and search_ebay_sold (lines 195-196,
\* 199, 207-208): ValueError without a key, otherwise one EbaySearch request
\* with the key
SearchWithKey(fn) ==
    LET key == GetApiKey
    IN  /\ api_key_cache' = Some(key)
        /\ IF key = ""
           THEN /\ last_call' = Call(fn, "ValueError", key)
                /\ UNCHANGED requests
           ELSE /\ requests < MaxRequests
                /\ requests' = requests + 1
                /\ last_call' = Call(fn, "requested", key)
        /\ UNCHANGED <<pipeline_vars, fn_vars, threads, secrets, environ>>

SearchEbay == SearchWithKey("search_ebay")

SearchEbaySold == SearchWithKey("search_ebay_sold")

NextKey ==
    \/ SetEnviron
    \/ SetSecrets
    \/ GetApiKeyCall
    \/ SearchEbay
    \/ SearchEbaySold

SpecKey == InitKey /\ [][NextKey]_vars

-----------------------------------------------------------------------------
(* Properties of match_products *)

\* match_products has returned (its result is matches)
Matched == pc /= "match"

AliIndices == 1..Len(ali_products)
EbayIndices == 1..Len(ebay_products)

\* the supply indices the e-th source listing may still be paired with
Candidates(e, used) ==
    { a \in AliIndices \ used : SimAtLeast(Similarity(e, a), min_similarity) }

(* C1: the pairs of match_products never hold the same supply listing (by  *)
(* its index in the supply list) twice.                                    *)
C1_SupplyUsedOnce ==
    \A i, j \in DOMAIN matches : i /= j => matches[i].a /= matches[j].a

\* two pairs are returned, and the second pair's source listing is more similar
\* to the supply listing of the other pair than to its own
C1_Witness ==
    /\ pc = "matched"
    /\ Len(matches) = 2
    /\ \E i, j \in DOMAIN matches :
          /\ matches[i].e < matches[j].e
          /\ SimGT(Similarity(matches[j].e, matches[i].a), matches[j].sim)

(* C2: every pair has similarity >= min_similarity (the similarity of its  *)
(* two titles), and a source listing for which every supply listing not yet *)
(* consumed is below min_similarity adds no pair, raises nothing, and the  *)
(* loop goes on to the next source listing.                                *)
C2_ThresholdRespected ==
    [][ /\ \A i \in DOMAIN matches' :
              /\ SimAtLeast(matches'[i].sim, min_similarity)
              /\ SimEQ(matches'[i].sim, Similarity(matches'[i].e, matches'[i].a))
        /\ (pc = "match" /\ ep_idx <= Len(ebay_products)
              /\ \A a \in AliIndices \ used_ali :
                    ~SimAtLeast(Similarity(ep_idx, a), min_similarity))
           => /\ matches' = matches
              /\ used_ali' = used_ali
              /\ ~raised'
              /\ pc' = "match"
              /\ ep_idx' = ep_idx + 1
        /\ (pc' = "matched" => ep_idx' = Len(ebay_products) + 1) ]_vars

\* the first source listing had unconsumed supply listings, all below the
\* threshold, and was dropped; the second one was paired
C2_Witness ==
    /\ pc = "matched"
    /\ Len(ebay_products) = 2
    /\ ali_products /= << >>
    /\ \A a \in AliIndices : ~SimAtLeast(Similarity(1, a), min_similarity)
    /\ Len(matches) = 1
    /\ matches[1].e = 2

(* C3: the source listings are processed in input order, and each is paired *)
(* with a supply listing of maximum similarity among those not consumed by *)
(* earlier source listings and at least min_similarity, if there is one;   *)
(* a consumed supply listing is not considered again.                      *)
C3_GreedyInOrder ==
    [][ (pc = "match" /\ ep_idx <= Len(ebay_products)) =>
          /\ \A i \in DOMAIN matches : matches[i].e < ep_idx
          /\ \A i, j \in DOMAIN matches : i < j => matches[i].e < matches[j].e
          /\ ep_idx' = ep_idx + 1
          /\ LET cand == Candidates(ep_idx, used_ali)
             IN  IF cand = {}
                 THEN matches' = matches /\ used_ali' = used_ali
                 ELSE \E a \in cand :
                        /\ \A b \in cand :
                              SimGE(Similarity(ep_idx, a), Similarity(ep_idx, b))
                        /\ matches' = Append(matches,
                                             Match(ep_idx, a, Similarity(ep_idx, a)))
                        /\ used_ali' = used_ali \cup {a} ]_vars

\* a supply listing went to an earlier source listing although a later source
\* listing is more similar to it, and that later one got a worse pair or none
C3_Witness ==
    /\ pc = "matched"
    /\ \E i \in DOMAIN matches : \E e \in EbayIndices :
          /\ e > matches[i].e
          /\ SimGT(Similarity(e, matches[i].a), matches[i].sim)
          /\ \A j \in DOMAIN matches :
                matches[j].e = e =>
                    SimGT(Similarity(e, matches[i].a), matches[j].sim)

(* C4: with one supply listing and two source listings both at least       *)
(* min_similarity to it, exactly one pair is returned and it holds the     *)
(* first source listing, whichever of the two is more similar.             *)
C4_FirstComeFirstServed ==
    ( /\ pc = "matched"
      /\ Len(ali_products) = 1
      /\ Len(ebay_products) = 2
      /\ SimAtLeast(Similarity(1, 1), min_similarity)
      /\ SimAtLeast(Similarity(2, 1), min_similarity) )
    => matches = << Match(1, 1, Similarity(1, 1)) >>

\* the case of C4 in which the second source listing is the more similar one
C4_Witness ==
    /\ pc = "matched"
    /\ Len(ali_products) = 1
    /\ Len(ebay_products) = 2
    /\ SimAtLeast(Similarity(1, 1), min_similarity)
    /\ SimGT(Similarity(2, 1), Similarity(1, 1))
    /\ Len(matches) = 1

(* C5: the sequence match_products returns is in non-increasing order of   *)
(* similarity.                                                             *)
C5_MatchesSortedBySimilarity ==
    Matched =>
        \A i \in 1..(Len(matches) - 1) : SimGE(matches[i].sim, matches[i + 1].sim)

\* the pair of the second source listing is returned before the pair of the first
C5_Witness ==
    /\ pc = "matched"
    /\ Len(matches) = 2
    /\ matches[1].e > matches[2].e
    /\ SimGT(matches[1].sim, matches[2].sim)

-----------------------------------------------------------------------------
(* Properties of analyze_opportunities *)

(* C6: the rows analyze_opportunities returns are in non-increasing order  *)
(* of composite_score.                                                     *)
C6_RowsSortedByScore ==
    pc = "done" =>
        \A i \in 1..(Len(result) - 1) :
            result[i].composite_score >= result[i + 1].composite_score

\* two rows were assembled in increasing score and are returned the other way
C6_Witness ==
    /\ pc = "done"
    /\ Len(rows) = 2
    /\ rows[1].composite_score < rows[2].composite_score
    /\ result = <<rows[2], rows[1]>>

(* C7: every returned row has net_profit > 0.                              *)
C7_RowsProfitable ==
    pc = "done" => \A i \in DOMAIN result : result[i].net_profit > 0

\* a pair was dropped for its net profit and another one was returned
C7_Witness ==
    /\ pc = "done"
    /\ result /= << >>
    /\ \E k \in DOMAIN matches : MarginOf(matches[k]).net_profit <= 0

\* the number of rows of df made from the match m
RowsFor(df, m) == Cardinality({ i \in DOMAIN df : df[i].e = m.e /\ df[i].a = m.a })

(* C8 as stated: among returned rows of equal composite score the one with *)
(* the higher net profit comes first, and rows equal in both come in the   *)
(* input order of their source listings.                                   *)
C8_TiesByProfitThenInputOrder ==
    pc = "done" =>
        \A i, j \in DOMAIN result :
            (i < j /\ result[i].composite_score = result[j].composite_score) =>
                \/ result[i].net_profit > result[j].net_profit
                \/ /\ result[i].net_profit = result[j].net_profit
                   /\ result[i].e < result[j].e

(* C8 amended: the rows are ordered on composite_score alone.  The output  *)
(* is the assembled rows, each once, and a row comes before another one    *)
(* whenever its composite score is higher; net profit and input order      *)
(* decide nothing among rows of equal composite score.                     *)
C8_OrderedOnScoreAlone ==
    pc = "done" =>
        /\ Len(result) = Len(rows)
        /\ \A k \in DOMAIN rows :
              Cardinality({ i \in DOMAIN result : result[i] = rows[k] })
                  = Cardinality({ i \in DOMAIN rows : rows[i] = rows[k] })
        /\ \A i, j \in DOMAIN result :
              result[i].composite_score > result[j].composite_score => i < j

\* two rows of equal composite score returned in the order they were assembled
\* in, the first with the lower net profit
C8_Witness ==
    /\ pc = "done"
    /\ Len(result) = 2
    /\ result = rows
    /\ result[1].composite_score = result[2].composite_score
    /\ result[1].net_profit < result[2].net_profit

\* the inputs for which C9 promises an empty result
C9_Case ==
    \/ ebay_products = << >>
    \/ ali_products = << >>
    \/ \A e \in EbayIndices : \A a \in AliIndices :
          ~SimAtLeast(Similarity(e, a), min_similarity)
    \/ /\ Matched
       /\ \A k \in DOMAIN matches : MarginOf(matches[k]).net_profit <= 0

(* C9: analyze_opportunities returns an empty result and raises nothing    *)
(* when the source list is empty, the supply list is empty, no pair clears *)
(* the threshold, or every matched pair is non-profitable; it always       *)
(* reaches its return.                                                     *)
C9_EmptyResultNoError ==
    C9_Case =>
        /\ ~raised
        /\ pc /= "raised"
        /\ result = << >>
        /\ (pc /= "done" => ENABLED Next)

\* pairs were matched, all were dropped as non-profitable, and the empty frame
\* was returned
C9_Witness ==
    /\ pc = "done"
    /\ matches /= << >>
    /\ \A k \in DOMAIN matches : MarginOf(matches[k]).net_profit <= 0
    /\ result = << >>
    /\ ~raised

(* C10 as stated: the output holds exactly one row for each matched pair   *)
(* whose net profit (gross revenue minus total cost, unrounded) is         *)
(* positive, and none for the others.                                      *)
C10_DroppedIffExactProfitNotPositive ==
    pc = "done" =>
        \A k \in DOMAIN matches :
            RowsFor(result, matches[k]) =
                IF MarginOf(matches[k]).net_profit_exact > 0 THEN 1 ELSE 0

(* C10 amended: a matched pair is dropped if and only if its net profit    *)
(* rounded to cents, as calculate_margin returns it, is <= 0; the output   *)
(* holds exactly one row for each other matched pair.  A pair whose profit *)
(* is positive but below half a cent is dropped.                           *)
C10_DroppedIffRoundedProfitNotPositive ==
    pc = "done" =>
        /\ \A k \in DOMAIN matches :
              RowsFor(result, matches[k]) =
                  IF MarginOf(matches[k]).net_profit > 0 THEN 1 ELSE 0
        /\ Len(result) =
              Cardinality({ k \in DOMAIN matches : MarginOf(matches[k]).net_profit > 0 })

\* a pair with a positive profit below half a cent was dropped, another was kept
C10_Witness ==
    /\ pc = "done"
    /\ Len(result) = 1
    /\ \E k \in DOMAIN matches :
          /\ MarginOf(matches[k]).net_profit_exact > 0
          /\ MarginOf(matches[k]).net_profit = 0
          /\ RowsFor(result, matches[k]) = 0

-----------------------------------------------------------------------------
(* calculate_margin called directly (SpecMargin) *)

MarginReturned == fn_pc = "returned"

C11_Case ==
    /\ MarginReturned
    /\ fn_args.sell_price = 2499
    /\ fn_args.source_cost = 550
    /\ fn_args.shipping_income = 0
    /\ ~fn_args.use_promoted
    /\ fn_args.caller_fees = ModuleFees

\* C11 as stated: calculate_margin(24.99, 5.50, 0, no promoted listing) returns
\* platform fee 3.61, payment fee 1.02, total cost 10.43, net profit 14.56,
\* margin 58.3 % and ROI 264.7 %.
C11_ExampleAsStated ==
    C11_Case =>
        /\ fn_result.ebay_fee = 361
        /\ fn_result.payment_fee = 102
        /\ fn_result.total_cost = 1043
        /\ fn_result.net_profit = 1456
        /\ fn_result.margin_pct = 583
        /\ fn_result.roi_pct = 2647

\* C11 amended: calculate_margin(24.99, 5.50, 0, no promoted listing) returns
\* platform fee 3.61, payment fee 1.02, promoted fee 0, total cost 10.14
\* (5.50 + 3.611175 + 1.02471), net profit 14.85, margin 59.4 % and
\* ROI 270.1 %.
C11_ExampleAsComputed ==
    C11_Case =>
        /\ fn_result.ebay_fee = 361
        /\ fn_result.payment_fee = 102
        /\ fn_result.promoted_fee = 0
        /\ fn_result.total_cost = 1014
        /\ fn_result.net_profit = 1485
        /\ fn_result.margin_pct = 594
        /\ fn_result.roi_pct = 2701

C11_Witness == C11_Case /\ fn_result.total_cost_exact = 10135885

-----------------------------------------------------------------------------
(* The fee schedule (SpecFees) *)

\* the three rounded fees a schedule gives on a gross revenue in cents
FeesFrom(fees, gross_revenue, promoted) ==
    [ ebay_fee |-> RoundDiv(gross_revenue * fees.platformFeeRate
                            + fees.perOrderFee * Cent, Cent),
      payment_fee |-> RoundDiv(gross_revenue * fees.paymentFeeRate
                               + fees.paymentFixedFee * Cent, Cent),
      promoted_fee |-> IF promoted
                       THEN RoundDiv(gross_revenue * fees.promotedFeeRate, Cent)
                       ELSE 0 ]

FeesOf(r) ==
    [ ebay_fee |-> r.ebay_fee, payment_fee |-> r.payment_fee,
      promoted_fee |-> r.promoted_fee ]

\* 0.1325, 0.30, 0.029, 0.30 and 0.03 as written in lines 25-29
FeesInCode ==
    [ platformFeeRate |-> 1325, perOrderFee |-> 30,
      paymentFeeRate |-> 290, paymentFixedFee |-> 30,
      promotedFeeRate |-> 300 ]

-----------------------------------------------------------------------------
(* The margin formulas (SpecMargin) *)

NonNegativeArgs ==
    /\ fn_args.sell_price >= 0
    /\ fn_args.source_cost >= 0
    /\ fn_args.shipping_income >= 0

\* C13: for non-negative inputs calculate_margin computes, before rounding,
\* gross revenue = sell price + shipping income, platform fee = gross * rate
\* + per-order fee, payment fee = gross * rate + fixed fee, promoted fee =
\* gross * rate when use_promoted and 0 otherwise, total cost = source cost +
\* the three fees, net profit = gross - total cost; the percentage fees are
\* charged on the shipping income too, and the returned amounts are these
\* rounded to the cent.
C13_UnroundedFormulas ==
    (MarginReturned /\ NonNegativeArgs) =>
        LET gross == fn_args.sell_price + fn_args.shipping_income
            platform == gross * FeesInCode.platformFeeRate + FeesInCode.perOrderFee * Cent
            payment == gross * FeesInCode.paymentFeeRate + FeesInCode.paymentFixedFee * Cent
            promoted == IF fn_args.use_promoted
                        THEN gross * FeesInCode.promotedFeeRate ELSE 0
            total == fn_args.source_cost * Cent + platform + payment + promoted
        IN  /\ fn_result.gross_revenue = gross
            /\ fn_result.ebay_fee_exact = platform
            /\ fn_result.payment_fee_exact = payment
            /\ fn_result.promoted_fee_exact = promoted
            /\ fn_result.total_cost_exact = total
            /\ fn_result.net_profit_exact = gross * Cent - total
            /\ fn_result.ebay_fee = RoundDiv(platform, Cent)
            /\ fn_result.payment_fee = RoundDiv(payment, Cent)
            /\ fn_result.promoted_fee = RoundDiv(promoted, Cent)
            /\ fn_result.total_cost = RoundDiv(total, Cent)
            /\ fn_result.net_profit = RoundDiv(gross * Cent - total, Cent)

\* 24.99 + 4.99 shipping, promoted: the platform fee is 29.98 * 0.1325 + 0.30
C13_Witness ==
    /\ MarginReturned
    /\ NonNegativeArgs
    /\ fn_args.sell_price = 2499
    /\ fn_args.shipping_income = 499
    /\ fn_args.use_promoted
    /\ fn_result.ebay_fee_exact = 4272350
    /\ fn_result.promoted_fee = 90

\* C14: calculate_margin never raises on numeric input; it returns
\* margin_pct = 0 when sell price + shipping income <= 0 and roi_pct = 0 when
\* the source cost is <= 0, instead of dividing by zero.
C14_NoDivisionByZero ==
    /\ fn_pc /= "raised"
    /\ MarginReturned =>
        /\ fn_args.sell_price + fn_args.shipping_income <= 0
               => fn_result.margin_pct = 0
        /\ fn_args.source_cost <= 0 => fn_result.roi_pct = 0

\* a free listing of a free item, and a loss on a negative price
C14_Witness ==
    /\ MarginReturned
    /\ fn_args.sell_price + fn_args.shipping_income = 0
    /\ fn_args.source_cost = 0
    /\ fn_result.margin_pct = 0
    /\ fn_result.roi_pct = 0
    /\ fn_result.net_profit = -60

-----------------------------------------------------------------------------
(* score_opportunity called directly (SpecScore) *)

ScoreReturned == fn_pc = "returned"

\* C15: for non-negative orders, rating, trend and confidence and any margin
\* and ROI, however far outside their saturation range, score_opportunity
\* returns a value within [0, 100]; a negative margin or ROI scores as 0.
C15_ScoreWithinRange ==
    ScoreReturned =>
        /\ fn_result >= 0
        /\ fn_result <= 1000
        /\ fn_result = ScoreOpportunity(Max(fn_args.margin_pct, 0),
                                        Max(fn_args.roi_pct, 0),
                                        fn_args.ali_orders, fn_args.ali_rating,
                                        fn_args.trend_score,
                                        fn_args.match_confidence)

\* every input beyond its range, and the result held at 100.0
C15_Witness ==
    /\ ScoreReturned
    /\ fn_args.margin_pct = 5000
    /\ fn_args.roi_pct = 100000
    /\ fn_args.ali_orders = 100000
    /\ fn_args.ali_rating = Some(100)
    /\ fn_args.trend_score = Some(2000)
    /\ fn_args.match_confidence = <<3, 2>>
    /\ fn_result = 1000

ScoreWith(a) ==
    ScoreOpportunity(a.margin_pct, a.roi_pct, a.ali_orders, a.ali_rating,
                     a.trend_score, a.match_confidence)

AllZeroArgs ==
    /\ fn_args.margin_pct = 0
    /\ fn_args.roi_pct = 0
    /\ fn_args.ali_orders = 0
    /\ fn_args.match_confidence = <<0, 1>>

\* C16: an absent rating scores as rating 0, an absent trend score scores as
\* trend score 50 and a present trend score of 0 contributes nothing:
\* score(0, 0, 0, absent, absent, 0) = 10.0 and score(0, 0, 0, absent, 0, 0) = 0.
C16_AbsentSignalDefaults ==
    ScoreReturned =>
        /\ fn_args.ali_rating = None
               => fn_result = ScoreWith([fn_args EXCEPT !.ali_rating = Some(0)])
        /\ fn_args.trend_score = None
               => fn_result = ScoreWith([fn_args EXCEPT !.trend_score = Some(500)])
        /\ (AllZeroArgs /\ fn_args.ali_rating = None /\ fn_args.trend_score = None)
               => fn_result = 100
        /\ (AllZeroArgs /\ fn_args.ali_rating = None /\ fn_args.trend_score = Some(0))
               => fn_result = 0

C16_Witness ==
    /\ ScoreReturned
    /\ AllZeroArgs
    /\ fn_args.ali_rating = None
    /\ fn_args.trend_score = None
    /\ fn_result = 100

\* C17: each of the six factors is normalized to a sub-score within [0, 100]
\* before weighting, for any non-negative input, so that no factor contributes
\* more than its weight times 100 to the weighted sum.
C17_EachFactorCapped ==
    ScoreReturned =>
        /\ MarginNorm(fn_args.margin_pct) \in 0..FullNorm
        /\ RoiNorm(fn_args.roi_pct) \in 0..FullNorm
        /\ OrdersNorm(fn_args.ali_orders) \in 0..FullNorm
        /\ RatingNorm(fn_args.ali_rating) \in 0..FullNorm
        /\ TrendNorm(fn_args.trend_score) \in 0..FullNorm
        /\ MatchNorm(fn_args.match_confidence)
               \in 0..(FullNorm * fn_args.match_confidence[2])

-----------------------------------------------------------------------------
(* _normalize_title called directly (SpecNormalize) *)

\* C18: _normalize_title is idempotent: normalizing a result of the function
\* again returns it unchanged, also when the removal of a noise phrase or of a
\* special character has left text that forms a noise phrase.
C18_Idempotent ==
    fn_pc = "returned again" => fn_result = fn_args

NormalizeReturned == fn_pc \in {"returned", "returned again"}

\* a character of [a-z0-9]
InClass(c) == (\E k \in 1..26 : LowerChars[k] = c) \/ c \in DigitChars

\* only [a-z0-9 ], no space at either end, no two spaces in a row
WellFormed(t) ==
    /\ \A i \in 1..Len(t) : InClass(t[i]) \/ t[i] = " "
    /\ t /= << >> => (t[1] /= " " /\ t[Len(t)] /= " ")
    /\ \A i \in 1..(Len(t) - 1) : ~(t[i] = " " /\ t[i + 1] = " ")

\* C19 as stated: the result holds only characters of [a-z0-9 ], has no
\* leading or trailing space and no two consecutive spaces, and an input made
\* only of characters outside [a-z0-9] gives the empty string.
C19_WellFormedAndGarbageEmpty ==
    NormalizeReturned =>
        /\ WellFormed(fn_result)
        /\ (\A i \in 1..Len(fn_args) : ~InClass(fn_args[i])) => fn_result = << >>

\* C19 amended: the result holds only characters of [a-z0-9 ], has no leading
\* or trailing space and no two consecutive spaces, and an input in which no
\* character is a letter or a digit once lower-cased gives the empty string.
C19_WellFormedAndSymbolsEmpty ==
    NormalizeReturned =>
        /\ WellFormed(fn_result)
        /\ (\A i \in 1..Len(fn_args) : ~InClass(LowerChar(fn_args[i])))
               => fn_result = << >>

\* "CAT-<tab>CAT" becomes "cat cat"
C19_Witness ==
    /\ fn_pc = "returned"
    /\ fn_args = <<"C","A","T","-","\t","C","A","T">>
    /\ fn_result = <<"c","a","t"," ","c","a","t">>

-----------------------------------------------------------------------------
(* The demand-trend call of analyze_opportunities (Spec) *)

\* the similarity of the match a row was made from
SimOfRow(r) ==
    matches[CHOOSE k \in DOMAIN matches : matches[k].e = r.e /\ matches[k].a = r.a].sim

UsesTheTrend(r) ==
    /\ r.trend_score = trend
    /\ r.composite_score =
           ScoreOpportunity(r.margin_pct, r.roi_pct, r.ali_orders, r.ali_rating,
                            trend, SimOfRow(r))

\* C20: one invocation of analyze_opportunities calls the trend source at most
\* once; the call comes only after the matcher has returned at least one pair
\* and only when include_trends is set and the keyword is not empty; the one
\* score obtained is the trend_score of every row and the trend input of every
\* row's composite score.
C20_OneTrendCall ==
    /\ trend_calls <= 1
    /\ trend_calls = 1 =>
           /\ pc \in {"rows", "done", "raised"}
           /\ matches /= << >>
           /\ include_trends
           /\ keyword /= << >>
    /\ trend_calls = 0 => trend = None
    /\ \A i \in DOMAIN rows : UsesTheTrend(rows[i])
    /\ \A i \in DOMAIN result : UsesTheTrend(result[i])

\* two pairs, one call, and both returned rows carry its score
C20_Witness ==
    /\ pc = "done"
    /\ trend_calls = 1
    /\ trend = Some(1000)
    /\ Len(matches) = 2
    /\ Len(result) = 2
    /\ \A i \in DOMAIN result : result[i].trend_score = Some(1000)

-----------------------------------------------------------------------------
(* A failed trend lookup (Spec) *)

TrendFailed == trend_outcome \in {"exception", "empty"}

\* the rows the row loop assembles from the matches k.. when the trend is tr
RECURSIVE RowsFrom(_, _)
RowsFrom(k, tr) ==
    IF k > Len(matches) THEN << >>
    ELSE LET margin == MarginOf(matches[k])
         IN  (IF margin.net_profit <= 0 THEN << >>
              ELSE <<RowOf(matches[k], margin, tr)>>) \o RowsFrom(k + 1, tr)

\* the frames a run without a trend score may return
ResultsWithoutTrend ==
    LET df == RowsFrom(1, None)
    IN  IF df = << >> THEN {df} ELSE SortValues(df)

\* C21: when the trend lookup fails (an exception, or no data),
\* get_trend_score returns None and raises nothing; analyze_opportunities
\* completes and returns the rows and composite scores a run with trends
\* disabled returns, every score computed with the neutral trend value 50.
C21_TrendFailureIsNeutral ==
    /\ TrendFailed =>
           /\ trend = None
           /\ ~raised
           /\ pc /= "done" => ENABLED Next
    /\ (pc = "done" /\ (TrendFailed \/ (matches /= << >> /\ ~WantsTrend))) =>
           /\ rows = RowsFrom(1, None)
           /\ result \in ResultsWithoutTrend
           /\ \A i \in DOMAIN result :
                  /\ result[i].trend_score = None
                  /\ result[i].composite_score =
                         ScoreOpportunity(result[i].margin_pct, result[i].roi_pct,
                                          result[i].ali_orders, result[i].ali_rating,
                                          Some(500), SimOfRow(result[i]))

\* the lookup raised inside get_trend_score and two rows were returned
C21_Witness ==
    /\ pc = "done"
    /\ trend_outcome = "exception"
    /\ trend_calls = 1
    /\ Len(result) = 2
    /\ result[1].trend_score = None

-----------------------------------------------------------------------------
(* Concurrent calls of match_products (SpecConcurrent) *)

\* what match_products returns when it runs alone on the source listings
\* order[k..], having consumed `used` and collected ms
RECURSIVE MatchLoop(_, _, _, _)
MatchLoop(order, k, used, ms) ==
    IF k > Len(order) THEN SortMatches(ms)
    ELSE LET best == BestMatch(order[k], used)
         IN  IF best = None THEN MatchLoop(order, k + 1, used, ms)
             ELSE MatchLoop(order, k + 1, used \cup {best[1][1]},
                            Append(ms, Match(order[k], best[1][1], best[1][2])))

SourceOrder(t) == [pos \in 1..Len(ebay_products) |-> SourceIndex(t, pos)]

\* C22: two match_products calls running concurrently over the same supply
\* list, in any interleaving of their steps, each return what they return when
\* run alone; each call consumes supply listings in a set of its own, which
\* holds exactly the listings of its own pairs.
C22_ConcurrentCallsIndependent ==
    \A t \in Threads :
        /\ threads[t].used_ali =
               { threads[t].matches[k].a : k \in DOMAIN threads[t].matches }
        /\ threads[t].pc = "returned" =>
               threads[t].matches = MatchLoop(SourceOrder(t), 1, {}, << >>)

\* both calls have returned, thread 2 consumed its first supply listing while
\* thread 1 was inside its loop, and both paired the same supply listing, with
\* different source listings
C22_Witness ==
    /\ \A t \in Threads : threads[t].pc = "returned"
    /\ \E k1 \in DOMAIN threads[1].matches, k2 \in DOMAIN threads[2].matches :
           /\ threads[1].matches[k1].a = threads[2].matches[k2].a
           /\ threads[1].matches[k1].e /= threads[2].matches[k2].e

-----------------------------------------------------------------------------
(* A second call with the same arguments (SpecTwice) *)

SecondCall == fn_pc = "called again"

DistinctScores(df) ==
    \A i, j \in DOMAIN df : i /= j => df[i].composite_score /= df[j].composite_score

SameAsFirstCall ==
    /\ (SecondCall /\ pc \in {"matched", "rows", "done"}) =>
           matches = fn_result.matches
    /\ (SecondCall /\ pc = "done" /\ trend = fn_result.trend) =>
           /\ rows = fn_result.rows
           /\ result \in (IF rows = << >> THEN {rows} ELSE SortValues(fn_result.rows))
           /\ DistinctScores(rows) => result = fn_result.result

\* C23: match_products and analyze_opportunities leave the source and supply
\* lists as they were, and keep no state between calls: a second call with the
\* same arguments returns the same pairs and, given the same trend score,
\* the same rows in the order sort_values gives that frame.
C23_PureInItsInputs ==
    /\ []SameAsFirstCall
    /\ [][ebay_products' = ebay_products /\ ali_products' = ali_products]_vars

\* a second call has returned the two rows of the first, which had consumed
\* both supply listings
C23_Witness ==
    /\ SecondCall
    /\ pc = "done"
    /\ trend = fn_result.trend
    /\ Len(result) = 2
    /\ result = fn_result.result
    /\ Len(ali_products) = 2

-----------------------------------------------------------------------------
(* The AliExpress searches (SpecSearch) *)

SearchReturned ==
    fn_pc \in {"returned from search_aliexpress_html", "returned from search_aliexpress"}

\* C24: every product an AliExpress search called with min_orders = k returns
\* has orders >= k, for search_aliexpress_html and for search_aliexpress.
C24_MinOrdersRespected ==
    SearchReturned =>
        \A i \in DOMAIN fn_result : fn_result[i].orders >= fn_args.min_orders

-----------------------------------------------------------------------------
(* The matching as a whole (Spec) *)

PairedSources == { matches[k].e : k \in DOMAIN matches }
PairedSupplies == { matches[k].a : k \in DOMAIN matches }

\* C25: the matching match_products returns is maximal: no source listing
\* without a pair and supply listing without a pair have a similarity
\* >= min_similarity.
C25_MatchingMaximal ==
    Matched =>
        \A e \in EbayIndices \ PairedSources : \A a \in AliIndices \ PairedSupplies :
            ~SimAtLeast(Similarity(e, a), min_similarity)

\* a source and a supply listing are both left without a pair, below the
\* threshold, next to a pair that was made
C25_Witness ==
    /\ pc = "matched"
    /\ Len(matches) = 1
    /\ EbayIndices \ PairedSources /= {}
    /\ AliIndices \ PairedSupplies /= {}

\* C26: each source listing is in at most one pair, so there are at most
\* min(number of source listings, number of supply listings) pairs, and exactly
\* that many when min_similarity <= 0.
C26_PairCount ==
    Matched =>
        /\ \A i, j \in DOMAIN matches : i /= j => matches[i].e /= matches[j].e
        /\ Len(matches) <= Min(Len(ebay_products), Len(ali_products))
        /\ min_similarity <= 0 =>
               Len(matches) = Min(Len(ebay_products), Len(ali_products))

\* threshold 0, and a pair of similarity 0 among the two pairs made
C26_Witness ==
    /\ pc = "matched"
    /\ min_similarity = 0
    /\ Len(matches) = 2
    /\ \E k \in DOMAIN matches : matches[k].sim[1] = 0

\* the supply listings not consumed when the source listing e was visited
FreeFor(e) == AliIndices \ { matches[k].a : k \in { j \in DOMAIN matches : matches[j].e < e } }

\* C27: when several supply listings not yet consumed share the highest
\* similarity with a source listing, it is paired with the one that comes
\* first in the supply list.
C27_FirstOfEqualBest ==
    Matched =>
        \A k \in DOMAIN matches :
            \A a \in FreeFor(matches[k].e) :
                /\ SimGE(matches[k].sim, Similarity(matches[k].e, a))
                /\ SimEQ(matches[k].sim, Similarity(matches[k].e, a)) => matches[k].a <= a

\* the first source listing is as similar to the second supply listing as to
\* the first, and is paired with the first
C27_Witness ==
    /\ pc = "matched"
    /\ Len(ali_products) = 2
    /\ ali_products[1] /= ali_products[2]
    /\ \E k \in DOMAIN matches :
           /\ matches[k].e = 1
           /\ matches[k].a = 1
           /\ SimEQ(Similarity(1, 2), matches[k].sim)

-----------------------------------------------------------------------------
(* The rounded amounts of calculate_margin (SpecMargin) *)

SumOfReturnedParts ==
    fn_args.source_cost + fn_result.ebay_fee + fn_result.payment_fee
    + fn_result.promoted_fee

ReturnedNet ==
    fn_args.sell_price + fn_args.shipping_income - fn_result.total_cost

-----------------------------------------------------------------------------
(* score_opportunity as a function of one argument (SpecScore) *)

\* an absent rating or trend is not a number and is compared with nothing
OptLE(x, y) == x /= None /\ y /= None /\ x[1] <= y[1]

FracLE(x, y) == x[1] * y[2] <= y[1] * x[2]

\* the argument records that differ from the call's in one argument, which is
\* larger
RaisedInOneArgument ==
    {[fn_args EXCEPT !.margin_pct = v] : v \in {w \in MarginPcts : fn_args.margin_pct <= w}}
    \cup {[fn_args EXCEPT !.roi_pct = v] : v \in {w \in RoiPcts : fn_args.roi_pct <= w}}
    \cup {[fn_args EXCEPT !.ali_orders = v] : v \in {w \in AliOrders : fn_args.ali_orders <= w}}
    \cup {[fn_args EXCEPT !.ali_rating = v] : v \in {w \in AliRatings : OptLE(fn_args.ali_rating, w)}}
    \cup {[fn_args EXCEPT !.trend_score = v] : v \in {w \in TrendInputs : OptLE(fn_args.trend_score, w)}}
    \cup {[fn_args EXCEPT !.match_confidence = v] :
             v \in {w \in MatchConfidences : FracLE(fn_args.match_confidence, w)}}

\* the argument records that differ from the call's in an argument at or above
\* its saturation point (60 %, 300 %, 500 orders), which stays at or above it
MovedAboveSaturation ==
    {[fn_args EXCEPT !.margin_pct = v] :
        v \in {w \in MarginPcts : fn_args.margin_pct >= 600 /\ w >= 600}}
    \cup {[fn_args EXCEPT !.roi_pct = v] :
        v \in {w \in RoiPcts : fn_args.roi_pct >= 3000 /\ w >= 3000}}
    \cup {[fn_args EXCEPT !.ali_orders = v] :
        v \in {w \in AliOrders : fn_args.ali_orders >= 500 /\ w >= 500}}

\* C29: score_opportunity is non-decreasing in each of its six arguments, the
\* other five fixed, and constant in margin_pct from 60 up, in roi_pct from 300
\* up and in ali_orders from 500 up.
C29_MonotoneAndSaturating ==
    ScoreReturned =>
        /\ \A a \in RaisedInOneArgument : fn_result <= ScoreWith(a)
        /\ \A a \in MovedAboveSaturation : fn_result = ScoreWith(a)

\* a call at the 60 % margin whose score is below the clamp: a lower margin
\* scores less, a higher margin the same, more orders more
C29_Witness ==
    /\ ScoreReturned
    /\ fn_args.margin_pct = 600
    /\ fn_args.ali_orders = 120
    /\ fn_result < 1000
    /\ ScoreWith([fn_args EXCEPT !.margin_pct = 583]) < fn_result
    /\ ScoreWith([fn_args EXCEPT !.margin_pct = 5000]) = fn_result
    /\ ScoreWith([fn_args EXCEPT !.ali_orders = 500]) > fn_result
    /\ ScoreWith([fn_args EXCEPT !.ali_orders = 500])
           = ScoreWith([fn_args EXCEPT !.ali_orders = 100000])

-----------------------------------------------------------------------------
(* The cached API key (SpecKey) *)

Searches == {"search_ebay", "search_ebay_sold"}

\* C30: get_api_key caches its first result for the life of the process: the
\* cache is filled once, with what the body computes at the first call, and no
\* change of the environment or of the secrets changes it; every call returns
\* the cached value; and while the cached value is the empty key, search_ebay
\* and search_ebay_sold raise ValueError and make no request.
C30_FirstResultCached ==
    /\ [](last_call.fn /= "none" =>
             api_key_cache /= None /\ last_call.key = api_key_cache[1])
    /\ [](api_key_cache = Some("") /\ last_call.fn \in Searches =>
             last_call.outcome = "ValueError")
    /\ [][ /\ api_key_cache' /= api_key_cache =>
                api_key_cache = None /\ api_key_cache' = Some(LoadApiKey)
           /\ api_key_cache = Some("") => requests' = requests ]_vars

\* the first call found no key, a key was then put in the environment (the
\* secrets being unavailable, the body would now return it), and
\* search_ebay_sold has just raised ValueError
C30_Witness ==
    /\ api_key_cache = Some("")
    /\ ~secrets.available
    /\ environ = Some("key-a")
    /\ LoadApiKey = "key-a"
    /\ last_call = Call("search_ebay_sold", "ValueError", "")
    /\ requests = 0

====
